---- MODULE Spec2Model ----
(***************************************************************************)
(* Project Manager front end: the ProjectDetails page (task list CRUD),    *)
(* the TaskScheduler component (scheduling dialog), the scheduler API      *)
(* client, and the scheduling engine the client talks to.                  *)
(*                                                                         *)
(* Conventions                                                             *)
(*  - a JavaScript string typed by the user is a sequence of one-character *)
(*    strings, e.g. <<"1", ".", "5">>;                                     *)
(*  - a value that may be undefined / null is a sequence of length 0       *)
(*    (absent) or 1 (present): None, Some(x);                              *)
(*  - a JavaScript number is a fraction [n |-> numerator, d |-> denom],    *)
(*    d = 0 standing for NaN, so that "is an integer" is a checkable fact. *)
(***************************************************************************)
EXTENDS Integers, Sequences, FiniteSets, TLC

\* ------------------------------------------------------------------ bounds
\* Number of tasks the server ever creates for the project.
MaxTasks == 2
\* Number of create / toggle / delete requests in flight at the same time.
MaxPending == 1
\* Number of such requests in flight at the same time in the task list's
\* specification (SpecPage).
MaxOverlap == 2
\* Number of tasks of the requests enumerated for the engine (SpecEngine).
MaxEngineTasks == 3
\* Number of tasks of the project in the dialog's specification (SpecDialog).
MaxDialogTasks == 3

\* Titles the user gives to tasks.
Titles == {"A", "B"}
\* Absent due date (Task.dueDate is optional).
NoDue == 0
\* The forms the user submits in the New Task dialog: <<title, due date>>,
\* the due date a day number.
NewTaskForms == {<<"A", NoDue>>, <<"B", 1>>}

None == <<>>
Some(x) == <<x>>
IsSome(o) == Len(o) > 0
Get(o) == o[1]

\* ------------------------------------------------------------ JS helpers
Digits == {"0", "1", "2", "3", "4", "5", "6", "7", "8", "9"}

DigitVal(c) ==
  CASE c = "0" -> 0 [] c = "1" -> 1 [] c = "2" -> 2 [] c = "3" -> 3
    [] c = "4" -> 4 [] c = "5" -> 5 [] c = "6" -> 6 [] c = "7" -> 7
    [] c = "8" -> 8 [] c = "9" -> 9

RECURSIVE Pow10(_)
Pow10(k) == IF k = 0 THEN 1 ELSE 10 * Pow10(k - 1)

\* Longest prefix of s made of digits.
RECURSIVE DigitPrefix(_)
DigitPrefix(s) ==
  IF s = <<>> \/ Head(s) \notin Digits THEN <<>>
  ELSE <<Head(s)>> \o DigitPrefix(Tail(s))

RECURSIVE DigitsValue(_)
DigitsValue(ds) ==
  IF ds = <<>> THEN 0
  ELSE DigitsValue(SubSeq(ds, 1, Len(ds) - 1)) * 10 + DigitVal(ds[Len(ds)])

NaN == [n |-> 0, d |-> 0]
Num(k) == [n |-> k, d |-> 1]
isNaN(x) == x.d = 0
IsInteger(x) == x.d > 0 /\ x.n % x.d = 0
\* x < k for a number x that is not NaN and an integer k.
LessThan(x, k) == x.n < k * x.d

\* hoursString.replace(/[^\d.]/g, '')
Cleaned(s) == SelectSeq(s, LAMBDA c : c \in Digits \/ c = ".")

\* parseFloat on a string of digits and dots: the longest prefix that is a
\* decimal literal (digits, optionally a dot and digits); NaN when that
\* prefix holds no digit.
parseFloat(s) ==
  LET ip   == DigitPrefix(s)
      rest == SubSeq(s, Len(ip) + 1, Len(s))
      fp   == IF rest # <<>> /\ Head(rest) = "." THEN DigitPrefix(Tail(rest))
              ELSE <<>>
  IN  IF ip = <<>> /\ fp = <<>> THEN NaN
      ELSE [n |-> DigitsValue(ip) * Pow10(Len(fp)) + DigitsValue(fp),
            d |-> Pow10(Len(fp))]

\* Math.round on a non-negative number: floor(x + 1/2).
MathRound(x) == Num((2 * x.n + x.d) \div (2 * x.d))

parseEstimatedHours(hoursString) ==
  LET parsed == parseFloat(Cleaned(hoursString))
  IN  IF isNaN(parsed) \/ LessThan(parsed, 1) THEN Num(1) ELSE MathRound(parsed)

\* ------------------------------------------------------- wire contract
Range(s) == {s[i] : i \in 1..Len(s)}

\* ScheduleTaskDto: [title, estimatedHours, dueDate, dependencies].
\* ScheduleRequest: [tasks |-> sequence of ScheduleTaskDto].
ReqTitles(req) == {req.tasks[i].title : i \in 1..Len(req.tasks)}

\* ------------------------------------------------- scheduling engine
\* The working-hours calendar: 09:00-17:00, Monday to Friday.  Time is in
\* hours since a Monday 00:00; a due date (day number) is that day's 00:00.
WorkStart == 9
WorkEnd == 17
HoursPerDay == 24
DaysPerWeek == 7
WorkDaysPerWeek == 5

DueTime(due) == due * HoursPerDay

IsWorking(t) ==
  /\ (t \div HoursPerDay) % DaysPerWeek < WorkDaysPerWeek
  /\ t % HoursPerDay >= WorkStart
  /\ t % HoursPerDay < WorkEnd

\* First working-hour instant at or after t.
RECURSIVE NextWorkStart(_)
NextWorkStart(t) ==
  LET day == t \div HoursPerDay
  IN  IF IsWorking(t) THEN t
      ELSE IF day % DaysPerWeek < WorkDaysPerWeek /\ t % HoursPerDay < WorkStart
           THEN day * HoursPerDay + WorkStart
      ELSE NextWorkStart((day + 1) * HoursPerDay)

\* Cursor after consuming hrs working hours from t, rolling over to the
\* following working days.
RECURSIVE Consume(_, _)
Consume(t, hrs) ==
  IF hrs = 0 THEN t
  ELSE LET s     == NextWorkStart(t)
           avail == (s \div HoursPerDay) * HoursPerDay + WorkEnd - s
           take  == IF hrs < avail THEN hrs ELSE avail
       IN  Consume(s + take, hrs - take)

\* 4.1 Dependency graph builder: nodes are the positions of the tasks.
DepsOfNone(req, i) == {}

DepsOf(req, i) ==
  {j \in 1..Len(req.tasks) : req.tasks[j].title \in Range(req.tasks[i].dependencies)}

DanglingOf(req, i) == Range(req.tasks[i].dependencies) \ ReqTitles(req)

RECURSIVE DanglingWarnings(_, _)
DanglingWarnings(req, i) ==
  IF i > Len(req.tasks) THEN <<>>
  ELSE (IF DanglingOf(req, i) = {} THEN <<>>
        ELSE <<[kind |-> "dangling", title |-> req.tasks[i].title,
                missing |-> DanglingOf(req, i)]>>)
       \o DanglingWarnings(req, i + 1)

\* MalformedRequest: empty task list, non-positive (or fractional)
\* estimated hours, duplicate titles.
Malformed(req) ==
  \/ Len(req.tasks) = 0
  \/ \E i \in 1..Len(req.tasks) :
        \/ ~IsInteger(req.tasks[i].estimatedHours)
        \/ LessThan(req.tasks[i].estimatedHours, 1)
  \/ \E i, j \in 1..Len(req.tasks) : i # j /\ req.tasks[i].title = req.tasks[j].title

\* 4.2 Tie-break among the eligible nodes: ascending due date, undated
\* tasks after all dated ones, then input order.
BeforeInputOrder(req, i, j) == i < j

Before(req, i, j) ==
  LET di == req.tasks[i].dueDate
      dj == req.tasks[j].dueDate
  IN  \/ di # NoDue /\ dj = NoDue
      \/ di # NoDue /\ dj # NoDue /\ di < dj
      \/ di = dj /\ i < j

RECURSIVE SortEligible(_, _)
SortEligible(req, S) ==
  IF S = {} THEN <<>>
  ELSE LET m == CHOOSE i \in S : \A j \in S \ {i} : Before(req, i, j)
       IN  <<m>> \o SortEligible(req, S \ {m})

\* Kahn's algorithm: extract every node whose dependencies are all done,
\* in tie-break order, and repeat until none is eligible.
RECURSIVE KahnOrder(_, _)
KahnOrder(req, done) ==
  LET eligible == {i \in 1..Len(req.tasks) \ Range(done) : DepsOf(req, i) \subseteq Range(done)}
  IN  IF eligible = {} THEN done
      ELSE KahnOrder(req, done \o SortEligible(req, eligible))

\* The nodes left with unresolved dependencies (on a cycle or behind one),
\* in input order.
StuckNodesDropped(req) == <<>>

StuckNodes(req) ==
  LET done == Range(KahnOrder(req, <<>>))
  IN  SelectSeq([i \in 1..Len(req.tasks) |-> i], LAMBDA i : i \notin done)

FullOrder(req) == KahnOrder(req, <<>>) \o StuckNodes(req)

\* 4.3 Calendar placement: tasks back to back from the cursor.
PlaceAllAtCursor(req, order, cursor) ==
  [k \in 1..Len(order) |->
     LET t == req.tasks[order[k]]
     IN  [title |-> t.title, startDate |-> NextWorkStart(cursor),
          endDate |-> Consume(NextWorkStart(cursor),
                              t.estimatedHours.n \div t.estimatedHours.d),
          estimatedHours |-> t.estimatedHours]]

RECURSIVE Place(_, _, _)
Place(req, order, cursor) ==
  IF order = <<>> THEN <<>>
  ELSE LET t     == req.tasks[Head(order)]
           start == NextWorkStart(cursor)
           end   == Consume(start, t.estimatedHours.n \div t.estimatedHours.d)
       IN  <<[title |-> t.title, startDate |-> start, endDate |-> end,
              estimatedHours |-> t.estimatedHours]>>
           \o Place(req, Tail(order), end)

RECURSIVE OverdueWarningsByStart(_, _)
OverdueWarningsByStart(req, placed) ==
  IF placed = <<>> THEN <<>>
  ELSE LET p == Head(placed)
           t == CHOOSE x \in Range(req.tasks) : x.title = p.title
       IN  (IF t.dueDate # NoDue /\ p.startDate > DueTime(t.dueDate)
            THEN <<[kind |-> "overdue", title |-> p.title]>> ELSE <<>>)
           \o OverdueWarningsByStart(req, Tail(placed))

RECURSIVE OverdueWarnings(_, _)
OverdueWarnings(req, placed) ==
  IF placed = <<>> THEN <<>>
  ELSE LET p == Head(placed)
           t == CHOOSE x \in Range(req.tasks) : x.title = p.title
       IN  (IF t.dueDate # NoDue /\ p.endDate > DueTime(t.dueDate)
            THEN <<[kind |-> "overdue", title |-> p.title]>> ELSE <<>>)
           \o OverdueWarnings(req, Tail(placed))

\* 4.4 Response assembler.
ScheduleResult(req, now) ==
  LET order  == FullOrder(req)
      stuck  == StuckNodes(req)
      placed == Place(req, order, now)
  IN  [recommendedOrder |-> [k \in 1..Len(order) |-> req.tasks[order[k]].title],
       scheduledTasks   |-> placed,
       isSchedulable    |-> stuck = <<>>,
       warnings         |-> DanglingWarnings(req, 1)
                            \o (IF stuck = <<>> THEN <<>>
                                ELSE <<[kind |-> "cycle",
                                        titles |-> [k \in 1..Len(stuck) |-> req.tasks[stuck[k]].title]]>>)
                            \o OverdueWarnings(req, placed)]

\* How the service treats a dangling dependency: "warn" or "reject".
DanglingPolicies == {"warn", "reject"}

HasDangling(req) == \E i \in 1..Len(req.tasks) : DanglingOf(req, i) # {}

\* POST /api/v1/projects/{projectId}/schedule: the HTTP response.
\* A body is [text, json]: its text and, when the text is JSON, its value.
ScheduleEndpoint(req, now, policy) ==
  IF Malformed(req) \/ (policy = "reject" /\ HasDangling(req))
  THEN [status |-> 400, body |-> [text |-> "Invalid schedule request", json |-> None]]
  ELSE [status |-> 200,
        body |-> [text |-> "json", json |-> Some(ScheduleResult(req, now))]]

\* ------------------------------------------------------------- state
VARIABLES
  tasks,            \* ProjectDetails: the local task list (sequence of Task)
  nextId,           \* the id the server gives to the next task it creates
  pending,          \* create / toggle / delete requests in flight
  server,           \* the task list the server holds for the project
  failed,           \* a create / toggle / delete request has failed
  formErrors,       \* ProjectDetails state errors: field -> validation message
  overlap,          \* how many such requests the user lets overlap
  isDialogOpen,     \* TaskScheduler state
  isScheduling,
  scheduleResponse, \* None or Some(response value)
  taskDetails,      \* title -> [estimatedHours, dependencies], keyed by title
  errors,           \* title -> validation message
  edited,           \* ids of the tasks whose Estimated Hours field the user edited
  localStorage,     \* key -> stored string
  user,             \* AuthProvider state: the signed-in username, "" when none
  session,          \* the username the stored token was issued to, "" when no token
  inflight,         \* the schedule HTTP request in flight: None or Some([request, headers])
  event,            \* what the last step emitted: None, or Some([response, outcome, toast])
  danglingPolicy,   \* the service's treatment of dangling dependencies
  runStart          \* the instant the service starts its scheduling run

vars == <<tasks, nextId, pending, server, failed, formErrors, overlap, isDialogOpen, isScheduling, scheduleResponse,
          taskDetails, errors, edited, localStorage, user, session, inflight, event,
          danglingPolicy, runStart>>

pageVars == <<tasks, nextId, pending, server, failed, formErrors>>
schedulerVars == <<isDialogOpen, isScheduling, scheduleResponse, taskDetails,
                   errors, edited>>
serviceVars == <<danglingPolicy, runStart>>
authVars == <<localStorage, user, session>>

\* A map with no key (an empty JavaScript object).
NoEntries == [k \in {} |-> k]

\* Texts typed into an Estimated Hours field in the page model.
HoursTexts == {<<"2", ".", "5", "h">>}

\* ----------------------------------------------------- TaskScheduler
\* const incompleteTasks = tasks.filter(task => !task.isCompleted)
incompleteTasksAll == tasks

incompleteTasksReversed ==
  LET kept == SelectSeq(tasks, LAMBDA task : ~task.isCompleted)
  IN  [k \in 1..Len(kept) |-> kept[Len(kept) + 1 - k]]

incompleteTasks == SelectSeq(tasks, LAMBDA task : ~task.isCompleted)

IncompleteTitles == {incompleteTasks[i].title : i \in 1..Len(incompleteTasks)}

\* if (incompleteTasks.length === 0) return <the "All tasks completed" card>
SchedulerRenderedAlways == TRUE

SchedulerRendered == Len(incompleteTasks) > 0

\* The scheduling dialog is on screen.
DialogVisible == SchedulerRendered /\ isDialogOpen

HasDetails(td, title) == title \in DOMAIN td

\* taskDetails[title]?.estimatedHours || '1'  ('' and undefined are falsy)
HoursOrDefault(td, title) ==
  IF HasDetails(td, title) /\ IsSome(td[title].estimatedHours)
     /\ Get(td[title].estimatedHours) # <<>>
  THEN Get(td[title].estimatedHours) ELSE <<"1">>

\* taskDetails[title]?.dependencies || []
DepsOrEmpty(td, title) ==
  IF HasDetails(td, title) /\ IsSome(td[title].dependencies)
  THEN Get(td[title].dependencies) ELSE <<>>

\* The scheduler's render reads scheduleResponse.warnings.length and
\* scheduleResponse.scheduledTasks.map: a response without these fields
\* makes the render throw, which unmounts the page.
RenderThrows ==
  /\ SchedulerRendered
  /\ IsSome(scheduleResponse)
  /\ \/ "warnings" \notin DOMAIN Get(scheduleResponse)
     \/ "scheduledTasks" \notin DOMAIN Get(scheduleResponse)

PageAlive == ~RenderThrows

\* The page behind the (modal) scheduling dialog takes no clicks.
PageClickable == PageAlive /\ ~DialogVisible

initializeTaskDetails ==
  [title \in IncompleteTitles |->
     [estimatedHours |-> Some(HoursOrDefault(taskDetails, title)),
      dependencies   |-> Some(DepsOrEmpty(taskDetails, title))]]

\* { ...prev, [key]: { ...prev[key], field: value } }
WithEntry(td, title, entry) ==
  [k \in DOMAIN td \cup {title} |-> IF k = title THEN entry ELSE td[k]]

EntryOrUndefined(td, title) ==
  IF HasDetails(td, title) THEN td[title]
  ELSE [estimatedHours |-> None, dependencies |-> None]

openDialog ==
  /\ PageAlive /\ SchedulerRendered /\ ~isDialogOpen
  /\ taskDetails' =
       IF DOMAIN taskDetails = {}
          \/ \E i \in 1..Len(incompleteTasks) : ~HasDetails(taskDetails, incompleteTasks[i].title)
       THEN initializeTaskDetails ELSE taskDetails
  /\ isDialogOpen' = TRUE
  /\ scheduleResponse' = None
  /\ errors' = NoEntries
  /\ UNCHANGED <<isScheduling, edited>>
  /\ UNCHANGED <<pageVars, inflight, authVars, serviceVars, overlap>>
  /\ event' = None

\* Cancel, Done, Escape or a click outside: onOpenChange(false).
closeDialog ==
  /\ PageAlive /\ DialogVisible
  /\ isDialogOpen' = FALSE
  /\ UNCHANGED <<isScheduling, scheduleResponse, taskDetails, errors, edited>>
  /\ UNCHANGED <<pageVars, inflight, authVars, serviceVars, overlap>>
  /\ event' = None

\* "Edit Configuration" in the results view.
editConfiguration ==
  /\ PageAlive /\ DialogVisible /\ IsSome(scheduleResponse)
  /\ scheduleResponse' = None
  /\ UNCHANGED <<isDialogOpen, isScheduling, taskDetails, errors, edited>>
  /\ UNCHANGED <<pageVars, inflight, authVars, serviceVars, overlap>>
  /\ event' = None

\* The configuration view of the dialog is on screen.
ConfigVisible == PageAlive /\ DialogVisible /\ ~IsSome(scheduleResponse)

\* The user types value in the Estimated Hours field of incompleteTasks[i].
handleEstimatedHoursChangeOf(i, value) ==
  LET task == incompleteTasks[i]
  IN  /\ taskDetails' =
           WithEntry(taskDetails, task.title,
                     [EntryOrUndefined(taskDetails, task.title)
                        EXCEPT !.estimatedHours = Some(value)])
      /\ edited' = edited \cup {task.id}

handleEstimatedHoursChange ==
  /\ ConfigVisible
  /\ \E i \in 1..Len(incompleteTasks), value \in HoursTexts :
       handleEstimatedHoursChangeOf(i, value)
  /\ UNCHANGED <<isDialogOpen, isScheduling, scheduleResponse, errors>>
  /\ UNCHANGED <<pageVars, inflight, authVars, serviceVars, overlap>>
  /\ event' = None

\* newDeps of handleDependencyChange.
newDeps(td, taskTitle, dependency, checked) ==
  LET currentDeps == DepsOrEmpty(td, taskTitle)
  IN  IF checked THEN Append(currentDeps, dependency)
      ELSE SelectSeq(currentDeps, LAMBDA d : d # dependency)

\* The checkbox shows dependencies.includes(otherTask.title); a click
\* passes the inverse as checked.
BoxChecked(td, taskTitle, dependency) ==
  dependency \in Range(DepsOrEmpty(td, taskTitle))

\* A click on the checkbox of incompleteTasks[j] in the card of
\* incompleteTasks[i].
handleDependencyChangeOf(i, j) ==
  LET task       == incompleteTasks[i]
      dependency == incompleteTasks[j].title
      checked    == ~BoxChecked(taskDetails, task.title, dependency)
  IN  /\ incompleteTasks[j].id # task.id
      /\ taskDetails' =
           WithEntry(taskDetails, task.title,
                     [EntryOrUndefined(taskDetails, task.title)
                        EXCEPT !.dependencies =
                          Some(newDeps(taskDetails, task.title, dependency, checked))])

handleDependencyChange ==
  /\ ConfigVisible
  /\ \E i, j \in 1..Len(incompleteTasks) : handleDependencyChangeOf(i, j)
  /\ UNCHANGED <<isDialogOpen, isScheduling, scheduleResponse, errors, edited>>
  /\ UNCHANGED <<pageVars, inflight, authVars, serviceVars, overlap>>
  /\ event' = None

parsedHoursOf(title) == parseEstimatedHours(HoursOrDefault(taskDetails, title))

CircularWithNone(title) == <<>>

\* The dependencies of title that are incomplete tasks and list title back.
CircularWith(title) ==
  SelectSeq(DepsOrEmpty(taskDetails, title),
            LAMBDA depTitle : /\ depTitle \in IncompleteTitles
                              /\ title \in Range(DepsOrEmpty(taskDetails, depTitle)))

\* newErrors of validateScheduleRequest: the circular message, written
\* last, wins over the hours message.
newErrors ==
  LET bad == {title \in IncompleteTitles :
                \/ isNaN(parsedHoursOf(title)) \/ LessThan(parsedHoursOf(title), 1)
                \/ CircularWith(title) # <<>>}
  IN  [title \in bad |->
         IF CircularWith(title) # <<>>
         THEN [kind |-> "Circular dependency detected with",
               with |-> CircularWith(title)[Len(CircularWith(title))]]
         ELSE [kind |-> "Please enter a valid number of hours (minimum 1)",
               with |-> ""]]

validateScheduleRequest == DOMAIN newErrors = {} /\ Len(incompleteTasks) > 0

\* The ScheduleRequest handleScheduleTasks builds.
scheduleRequest ==
  [tasks |-> [i \in 1..Len(incompleteTasks) |->
     [title          |-> incompleteTasks[i].title,
      estimatedHours |-> parsedHoursOf(incompleteTasks[i].title),
      dueDate        |-> incompleteTasks[i].dueDate,
      dependencies   |-> DepsOrEmpty(taskDetails, incompleteTasks[i].title)]]]

\* ------------------------------------------------ SchedulerApiClient
Tokens == {"t1", "t2"}
Usernames == {"alice", "bob"}

\* localStorage.getItem: null for a key never stored.
getItem(key) == IF key \in DOMAIN localStorage THEN Some(localStorage[key]) ELSE None

setItem(store, key, value) ==
  [k \in DOMAIN store \cup {key} |-> IF k = key THEN value ELSE store[k]]

removeItem(store, key) == [k \in DOMAIN store \ {key} |-> store[k]]

getToken == getItem("token")

\* headers: { 'Content-Type': ..., ...(token && { Authorization: `Bearer ${token}` }) }
RequestHeadersAlways(tok) ==
  [ContentType |-> "application/json",
   Authorization |-> <<"Bearer", IF IsSome(tok) THEN Get(tok) ELSE "null">>]

RequestHeaders(tok) ==
  IF IsSome(tok) /\ Get(tok) # ""
  THEN [ContentType |-> "application/json", Authorization |-> <<"Bearer", Get(tok)>>]
  ELSE [ContentType |-> "application/json"]

\* scheduleProjectTasks up to the fetch: the HTTP request that leaves.
HttpRequest(request) ==
  [method |-> "POST", request |-> request, headers |-> RequestHeaders(getToken)]

\* response.ok
ResponseOk(resp) == resp.status >= 200 /\ resp.status <= 299

\* request() after the fetch: how the promise settles for a response.
SettleStatusOnly(resp) ==
  IF ~ResponseOk(resp)
  THEN [kind |-> "rejected",
        message |-> [kind |-> "HTTP error! status:", text |-> "", status |-> resp.status]]
  ELSE IF IsSome(resp.body.json)
  THEN [kind |-> "resolved", value |-> Get(resp.body.json)]
  ELSE [kind |-> "rejected", message |-> [kind |-> "SyntaxError", text |-> "", status |-> 0]]

Settle(resp) ==
  IF ~ResponseOk(resp)
  THEN [kind |-> "rejected",
        message |-> IF resp.body.text # ""
                    THEN [kind |-> "body", text |-> resp.body.text, status |-> 0]
                    ELSE [kind |-> "HTTP error! status:", text |-> "", status |-> resp.status]]
  ELSE IF IsSome(resp.body.json)
  THEN [kind |-> "resolved", value |-> Get(resp.body.json)]
  ELSE [kind |-> "rejected", message |-> [kind |-> "SyntaxError", text |-> "", status |-> 0]]

\* fetch itself rejects (no connection).
NetworkFailure ==
  [kind |-> "rejected", message |-> [kind |-> "TypeError", text |-> "Failed to fetch", status |-> 0]]

\* --------------------------------------------- handleScheduleTasks
\* Up to the await: validation, then the request leaves.
\* <Button onClick={handleScheduleTasks} disabled={isScheduling}>
GenerateEnabledAlways == TRUE

GenerateEnabled == ~isScheduling

handleScheduleTasks ==
  /\ ConfigVisible /\ GenerateEnabled
  /\ IF ~validateScheduleRequest
     THEN /\ errors' = newErrors
          /\ UNCHANGED <<isScheduling, inflight>>
     ELSE /\ isScheduling' = TRUE
          /\ errors' = NoEntries
          /\ inflight' = Some(HttpRequest(scheduleRequest))
  /\ UNCHANGED <<isDialogOpen, scheduleResponse, taskDetails, edited>>
  /\ UNCHANGED <<pageVars, authVars, serviceVars, overlap>>
  /\ event' = None

\* The response documented in the integration notes: recommendedOrder only.
DocumentedShape(value) == [recommendedOrder |-> value.recommendedOrder]

\* What the service and the transport may answer to a request.
ServiceResponses(req) ==
  LET r == ScheduleEndpoint(req, runStart, danglingPolicy)
  IN  {r, [status |-> 500, body |-> [text |-> "", json |-> None]]}
      \cup (IF r.status = 200
            THEN {[status |-> 200,
                   body |-> [text |-> "json",
                             json |-> Some(DocumentedShape(Get(r.body.json)))]]}
            ELSE {})

\* After the await: try / catch / finally of handleScheduleTasks.  The
\* toast is the one the run ends with.
ToastOf(outcome) ==
  IF outcome.kind = "resolved" /\ "warnings" \in DOMAIN outcome.value
  THEN IF Len(outcome.value.warnings) > 0
       THEN "Schedule generated with warnings"
       ELSE "Tasks scheduled successfully"
  ELSE "Failed to schedule tasks"

AfterAwaitNoFinally(outcome) ==
  /\ scheduleResponse' = IF outcome.kind = "resolved" THEN Some(outcome.value)
                         ELSE scheduleResponse
  /\ isScheduling' = IF outcome.kind = "resolved" THEN FALSE ELSE isScheduling

AfterAwait(outcome) ==
  /\ scheduleResponse' = IF outcome.kind = "resolved" THEN Some(outcome.value)
                         ELSE scheduleResponse
  /\ isScheduling' = FALSE

scheduleSettles ==
  /\ IsSome(inflight)
  /\ \/ /\ AfterAwait(NetworkFailure)
        /\ event' = Some([response |-> None, outcome |-> NetworkFailure,
                          toast |-> ToastOf(NetworkFailure)])
     \/ \E resp \in ServiceResponses(Get(inflight).request) :
          /\ AfterAwait(Settle(resp))
          /\ event' = Some([response |-> Some(resp), outcome |-> Settle(resp),
                            toast |-> ToastOf(Settle(resp))])
  /\ inflight' = None
  /\ UNCHANGED <<isDialogOpen, taskDetails, errors, edited>>
  /\ UNCHANGED <<pageVars, authVars, serviceVars, overlap>>

\* ------------------------------------------------------ ProjectDetails
isCreating == \E p \in pending : p.op = "create"

CanSend == PageClickable /\ Cardinality(pending) < overlap

\* z.string().min(1, ...).max(200, ...)
TitleMin == 1

TitleMax == 200

\* fieldErrors of taskSchema.safeParse(newTask): no entry when it succeeds.
taskSchema(newTask) ==
  IF Len(newTask[1]) < TitleMin
  THEN [title |-> "Title is required"]
  ELSE IF Len(newTask[1]) > TitleMax
       THEN [title |-> "Title must be less than 200 characters"]
       ELSE NoEntries

\* A string of n characters.
RECURSIVE Repeat(_, _)
Repeat(c, n) ==
  IF n = 0 THEN ""
  ELSE IF n % 2 = 0 THEN LET half == Repeat(c, n \div 2) IN half \o half
       ELSE c \o Repeat(c, n - 1)

\* Forms whose titles lie around the limits of taskSchema.
BoundaryForms == {<<Repeat("x", n), NoDue>> : n \in {0, TitleMax - 1, TitleMax, TitleMax + 1}}

\* handleCreateTask up to the await or to the return after a failed
\* validation, for the submitted form newTask.
handleCreateTaskOn(newTask) ==
  /\ PageClickable /\ ~isCreating
  /\ IF DOMAIN taskSchema(newTask) = {}
     THEN /\ CanSend /\ nextId <= MaxTasks
          /\ formErrors' = NoEntries
          /\ pending' = pending \cup
               {[op |-> "create", snap |-> tasks,
                 task |-> [id |-> 0, title |-> newTask[1], dueDate |-> newTask[2],
                           isCompleted |-> FALSE]]}
     ELSE /\ formErrors' = taskSchema(newTask)
          /\ pending' = pending
  /\ UNCHANGED <<tasks, nextId, server, failed, schedulerVars, inflight, authVars, serviceVars, overlap>>
  /\ event' = None

handleCreateTask == \E newTask \in NewTaskForms : handleCreateTaskOn(newTask)

\* handleCreateTask with a title of any length.
handleCreateTaskAnyTitle ==
  \E newTask \in NewTaskForms \cup BoundaryForms : handleCreateTaskOn(newTask)

handleToggleTask ==
  /\ CanSend
  /\ \E i \in 1..Len(tasks) :
       pending' = pending \cup {[op |-> "toggle", snap |-> tasks, task |-> tasks[i]]}
  /\ UNCHANGED <<tasks, nextId, server, failed, formErrors, schedulerVars, inflight, authVars, serviceVars, overlap>>
  /\ event' = None

\* if (!confirm(...)) return;  the user declined the prompt.
handleDeleteTaskDeclined ==
  /\ PageClickable /\ tasks # <<>>
  /\ event' = None
  /\ UNCHANGED <<pageVars, schedulerVars, inflight, authVars, serviceVars, overlap>>

\* The user accepted the prompt: handleDeleteTask up to the await.
handleDeleteTaskConfirmed ==
  /\ CanSend
  /\ \E i \in 1..Len(tasks) :
       pending' = pending \cup {[op |-> "delete", snap |-> tasks, task |-> tasks[i]]}
  /\ UNCHANGED <<tasks, nextId, server, failed, formErrors, schedulerVars, inflight, authVars, serviceVars, overlap>>
  /\ event' = None

\* The list a handler sets once its request succeeded, from the list its
\* closure captured.
TasksAfter(p, id) ==
  CASE p.op = "create" -> Append(p.snap, [p.task EXCEPT !.id = id])
    [] p.op = "toggle" ->
         [i \in 1..Len(p.snap) |->
            IF p.snap[i].id = p.task.id
            THEN [p.task EXCEPT !.isCompleted = ~p.task.isCompleted]
            ELSE p.snap[i]]
    [] p.op = "delete" -> SelectSeq(p.snap, LAMBDA t : t.id # p.task.id)

\* The server holds the task a toggle or delete request names.
ServerHas(p) == \E i \in 1..Len(server) : server[i].id = p.task.id

\* The list the server holds once it served the request.
ServerAfter(p, id) ==
  CASE p.op = "create" -> Append(server, [p.task EXCEPT !.id = id])
    [] p.op = "toggle" ->
         [i \in 1..Len(server) |->
            IF server[i].id = p.task.id
            THEN [p.task EXCEPT !.isCompleted = ~p.task.isCompleted]
            ELSE server[i]]
    [] p.op = "delete" -> SelectSeq(server, LAMBDA t : t.id # p.task.id)

requestSucceeds ==
  /\ PageAlive
  /\ \E p \in pending :
       /\ p.op = "create" \/ ServerHas(p)
       /\ server' = ServerAfter(p, nextId)
       /\ tasks' = TasksAfter(p, nextId)
       /\ nextId' = IF p.op = "create" THEN nextId + 1 ELSE nextId
       /\ pending' = pending \ {p}
  /\ UNCHANGED <<failed, formErrors, schedulerVars, inflight, authVars, serviceVars, overlap>>
  /\ event' = None

handleDeleteTask == handleDeleteTaskDeclined \/ handleDeleteTaskConfirmed

\* A catch block that sets the list as the try block would have.
requestFailsApplied ==
  /\ PageAlive
  /\ \E p \in pending :
       /\ pending' = pending \ {p}
       /\ tasks' = TasksAfter(p, nextId)
  /\ failed' = TRUE
  /\ UNCHANGED <<nextId, server, formErrors, schedulerVars, inflight, authVars, serviceVars, overlap>>
  /\ event' = None

requestFails ==
  /\ PageAlive
  /\ \E p \in pending : pending' = pending \ {p}
  /\ failed' = TRUE
  /\ UNCHANGED <<tasks, nextId, server, formErrors, schedulerVars, inflight, authVars, serviceVars, overlap>>
  /\ event' = None

\* ---------------------------------------------------- specification
Init ==
  /\ tasks = <<>>
  /\ nextId = 1
  /\ pending = {}
  /\ server = tasks
  /\ failed = FALSE
  /\ formErrors = NoEntries
  /\ overlap = MaxPending
  /\ isDialogOpen = FALSE
  /\ isScheduling = FALSE
  /\ scheduleResponse = None
  /\ taskDetails = NoEntries
  /\ errors = NoEntries
  /\ edited = {}
  /\ localStorage = [token |-> "t1", user |-> "\"alice\""]
  /\ user = "alice"
  /\ session = "alice"
  /\ inflight = None
  /\ event = None
  /\ danglingPolicy = "warn"
  /\ runStart = 10

Next ==
  \/ handleCreateTask
  \/ handleToggleTask
  \/ handleDeleteTask
  \/ requestSucceeds
  \/ requestFails
  \/ openDialog
  \/ closeDialog
  \/ editConfiguration
  \/ handleEstimatedHoursChange
  \/ handleDependencyChange
  \/ handleScheduleTasks
  \/ scheduleSettles

Spec == Init /\ [][Next]_vars

\* ------------------------------------------------------- AuthContext
\* JSON.stringify of a username: the name in double quotes.
JSONstringify(name) ==
  CASE name = "alice" -> "\"alice\"" [] name = "bob" -> "\"bob\""

\* login, the request succeeded with [token, username].
login ==
  /\ \E tok \in Tokens, name \in Usernames :
       /\ localStorage' = setItem(setItem(localStorage, "token", tok),
                                  "username", JSONstringify(name))
       /\ user' = name
       /\ session' = name
  /\ event' = None
  /\ UNCHANGED <<pageVars, schedulerVars, inflight, serviceVars, overlap>>

\* register, the request succeeded with [token, username].
register ==
  /\ \E tok \in Tokens, name \in Usernames :
       /\ localStorage' = setItem(setItem(localStorage, "token", tok),
                                  "user", JSONstringify(name))
       /\ user' = name
       /\ session' = name
  /\ event' = None
  /\ UNCHANGED <<pageVars, schedulerVars, inflight, serviceVars, overlap>>

logout ==
  /\ localStorage' = removeItem(removeItem(localStorage, "token"), "user")
  /\ user' = ""
  /\ session' = ""
  /\ event' = None
  /\ UNCHANGED <<pageVars, schedulerVars, inflight, serviceVars, overlap>>

\* JSON.parse of a stored string: the username, or None when it throws.
JSONparse(text) ==
  CASE text = "\"alice\"" -> Some("alice")
    [] text = "\"bob\"" -> Some("bob")
    [] OTHER -> None

\* The key of localStorage the mount effect reads the username from.
StoredUserKey == "user"

\* AuthProvider mounts (the page is loaded again): user starts as "" and the
\* mount effect restores it from localStorage.  A request in flight is
\* dropped with the page.
AuthProviderMount ==
  /\ LET token == getItem("token")
         storedUser == getItem(StoredUserKey)
     IN  IF IsSome(token) /\ Get(token) # "" /\ IsSome(storedUser) /\ Get(storedUser) # ""
         THEN IF IsSome(JSONparse(Get(storedUser)))
              THEN /\ user' = Get(JSONparse(Get(storedUser)))
                   /\ UNCHANGED <<localStorage, session>>
              ELSE /\ user' = ""
                   /\ localStorage' = removeItem(removeItem(localStorage, "token"), "user")
                   /\ session' = ""
         ELSE /\ user' = ""
              /\ UNCHANGED <<localStorage, session>>
  /\ inflight' = None
  /\ event' = None
  /\ UNCHANGED <<pageVars, schedulerVars, serviceVars, overlap>>

\* ------------------------------------- specification of the API client
\* Requests handed to scheduleProjectTasks.
ApiRequests ==
  {[tasks |-> <<>>],
   [tasks |-> <<[title |-> "A", estimatedHours |-> Num(1), dueDate |-> NoDue,
                 dependencies |-> <<>>]>>]}

\* Responses the transport may deliver.
ApiStatuses == {200, 204, 299, 300, 400, 401, 500}

ApiBodies ==
  {[text |-> "", json |-> None],
   [text |-> "Unauthorized", json |-> None],
   [text |-> "json", json |-> Some([recommendedOrder |-> <<"A">>])]}

ApiResponses == {[status |-> st, body |-> b] : st \in ApiStatuses, b \in ApiBodies}

\* scheduleProjectTasks(projectId, request) up to the fetch.
scheduleProjectTasks ==
  /\ inflight = None
  /\ \E request \in ApiRequests : inflight' = Some(HttpRequest(request))
  /\ event' = None
  /\ UNCHANGED <<pageVars, schedulerVars, authVars, serviceVars, overlap>>

\* The promise of scheduleProjectTasks settles.
promiseSettles ==
  /\ IsSome(inflight)
  /\ \/ \E resp \in ApiResponses :
          event' = Some([response |-> Some(resp), outcome |-> Settle(resp), toast |-> ""])
     \/ event' = Some([response |-> None, outcome |-> NetworkFailure, toast |-> ""])
  /\ inflight' = None
  /\ UNCHANGED <<pageVars, schedulerVars, authVars, serviceVars, overlap>>

InitApi ==
  /\ tasks = <<>>
  /\ nextId = 1
  /\ pending = {}
  /\ server = tasks
  /\ failed = FALSE
  /\ formErrors = NoEntries
  /\ overlap = MaxPending
  /\ isDialogOpen = FALSE
  /\ isScheduling = FALSE
  /\ scheduleResponse = None
  /\ taskDetails = NoEntries
  /\ errors = NoEntries
  /\ edited = {}
  /\ localStorage = NoEntries
  /\ user = ""
  /\ session = ""
  /\ inflight = None
  /\ event = None
  /\ danglingPolicy = "warn"
  /\ runStart = 10

NextApi ==
  \/ login
  \/ register
  \/ logout
  \/ AuthProviderMount
  \/ scheduleProjectTasks
  \/ promiseSettles

SpecApi == InitApi /\ [][NextApi]_vars

\* --------------------------------------- specification of the engine
\* Titles of the enumerated requests, by position.
EngineTitles == <<"A", "B", "C", "D", "E">>

EngineDepTitles == {EngineTitles[i] : i \in 1..MaxEngineTasks}

\* A set of titles as a list, in the order of EngineTitles.
TitleList(S) == SelectSeq(EngineTitles, LAMBDA t : t \in S)

EngineDues == {NoDue, 1, 2}

\* Estimated hours by position: 10, 3, 8, 8, ...
EngineHours(i) == IF i = 1 THEN 10 ELSE IF i = 2 THEN 3 ELSE 8

\* A request of n tasks titled A, B, ...: choice[i] gives the dependencies of
\* task i among the titles (a title beyond the n-th is dangling) and its due
\* date; with dup, the last task repeats the first title.
EngineRequest(n, choice, dup) ==
  [tasks |->
     [i \in 1..n |->
        [title          |-> IF dup /\ i = n /\ n > 1 THEN EngineTitles[1]
                            ELSE EngineTitles[i],
         estimatedHours |-> Num(EngineHours(i)),
         dueDate        |-> choice[i][2],
         dependencies   |-> TitleList(choice[i][1])]]]

\* Monday 10:00, Friday 16:00.
RunStarts == {10, 112}

\* The service answers the request in flight.
serviceResponds ==
  /\ IsSome(inflight) /\ event = None
  /\ LET resp == ScheduleEndpoint(Get(inflight).request, runStart, danglingPolicy)
     IN  event' = Some([response |-> Some(resp), outcome |-> Settle(resp), toast |-> ""])
  /\ UNCHANGED <<pageVars, schedulerVars, inflight, authVars, serviceVars, overlap>>

InitEngine ==
  /\ tasks = <<>>
  /\ nextId = 1
  /\ pending = {}
  /\ server = tasks
  /\ failed = FALSE
  /\ formErrors = NoEntries
  /\ overlap = MaxPending
  /\ isDialogOpen = FALSE
  /\ isScheduling = FALSE
  /\ scheduleResponse = None
  /\ taskDetails = NoEntries
  /\ errors = NoEntries
  /\ edited = {}
  /\ localStorage = [token |-> "t1", user |-> "\"alice\""]
  /\ user = "alice"
  /\ session = "alice"
  /\ \E n \in 0..MaxEngineTasks :
       \E choice \in [1..n -> (SUBSET EngineDepTitles) \X EngineDues],
          dup \in (IF n = 2 THEN BOOLEAN ELSE {FALSE}) :
         inflight = Some([method |-> "POST", request |-> EngineRequest(n, choice, dup),
                          headers |-> RequestHeaders(Some("t1"))])
  /\ event = None
  /\ danglingPolicy \in DanglingPolicies
  /\ runStart \in RunStarts

NextEngine == serviceResponds

SpecEngine == InitEngine /\ [][NextEngine]_vars

\* ------------------------------------ specification of the task list
\* The ProjectDetails page alone, the user letting requests overlap.
InitPage ==
  /\ tasks = <<>>
  /\ nextId = 1
  /\ pending = {}
  /\ server = <<>>
  /\ failed = FALSE
  /\ formErrors = NoEntries
  /\ overlap = MaxOverlap
  /\ isDialogOpen = FALSE
  /\ isScheduling = FALSE
  /\ scheduleResponse = None
  /\ taskDetails = NoEntries
  /\ errors = NoEntries
  /\ edited = {}
  /\ localStorage = [token |-> "t1", user |-> "\"alice\""]
  /\ user = "alice"
  /\ session = "alice"
  /\ inflight = None
  /\ event = None
  /\ danglingPolicy = "warn"
  /\ runStart = 10

NextPage ==
  \/ handleCreateTask
  \/ handleToggleTask
  \/ handleDeleteTask
  \/ requestSucceeds
  \/ requestFails

SpecPage == InitPage /\ [][NextPage]_vars

\* ------------------------- specification of the create-task form
NextForm ==
  \/ handleCreateTaskAnyTitle
  \/ handleToggleTask
  \/ handleDeleteTask
  \/ requestSucceeds
  \/ requestFails

SpecForm == InitPage /\ [][NextForm]_vars

\* ------------------------------ specification of the scheduling dialog
\* The TaskScheduler alone, over a project whose tasks do not change: the
\* first n titles of EngineTitles, all incomplete and without due date.
DialogTasks(n) ==
  [i \in 1..n |-> [id |-> i, title |-> EngineTitles[i], dueDate |-> NoDue,
                   isCompleted |-> FALSE]]

InitDialog ==
  /\ \E n \in 2..MaxDialogTasks : tasks = DialogTasks(n) /\ nextId = n + 1
  /\ pending = {}
  /\ server = tasks
  /\ failed = FALSE
  /\ formErrors = NoEntries
  /\ overlap = MaxPending
  /\ isDialogOpen = FALSE
  /\ isScheduling = FALSE
  /\ scheduleResponse = None
  /\ taskDetails = NoEntries
  /\ errors = NoEntries
  /\ edited = {}
  /\ localStorage = [token |-> "t1", user |-> "\"alice\""]
  /\ user = "alice"
  /\ session = "alice"
  /\ inflight = None
  /\ event = None
  /\ danglingPolicy = "warn"
  /\ runStart = 10

NextDialog ==
  \/ openDialog
  \/ closeDialog
  \/ editConfiguration
  \/ handleEstimatedHoursChange
  \/ handleDependencyChange
  \/ handleScheduleTasks
  \/ scheduleSettles

SpecDialog == InitDialog /\ [][NextDialog]_vars

\* The dialog under the assumption that every HTTP call completes: fetch
\* resolves or rejects, so the await of handleScheduleTasks ends.
InitDialogLive == InitDialog /\ Len(tasks) = 2

SpecDialogLive ==
  InitDialogLive /\ [][NextDialog]_vars /\ WF_vars(scheduleSettles)

\* ------------------------------------------------------------ claims
\* A step in which handleScheduleTasks sends its request.
RequestLeaves == inflight = None /\ IsSome(inflight')

SentRequest == Get(inflight).request

\* Positions of the tasks of the local list that are not completed.
IncompletePositions == {i \in 1..Len(tasks) : ~tasks[i].isCompleted}

CountIn(seq, x) == Cardinality({i \in 1..Len(seq) : seq[i] = x})

TitlesOf(seq) == [i \in 1..Len(seq) |-> seq[i].title]

\* C1: every title in the dependencies of a task of a schedule request in
\* flight is the title of a task of that request (no dangling dependency
\* is sent).  The code violates it.
C1_NoDanglingDependencySent ==
  IsSome(inflight) =>
    \A i \in 1..Len(SentRequest.tasks) :
      Range(SentRequest.tasks[i].dependencies) \subseteq ReqTitles(SentRequest)

\* C2: in every step that sends a schedule request, the request holds
\* exactly the tasks of the local task list that are not completed: as many
\* tasks, and each title as often as among the incomplete tasks.
C2_RequestIsTheIncompleteTasks ==
  [][RequestLeaves =>
       LET sent == TitlesOf(Get(inflight').request.tasks)
       IN  /\ Len(sent) = Cardinality(IncompletePositions)
           /\ \A t \in Titles :
                CountIn(sent, t) =
                  Cardinality({i \in IncompletePositions : tasks[i].title = t})]_vars

C2_Witness ==
  /\ IsSome(inflight) /\ pending = {} /\ Len(tasks) = 2
  /\ \E i, j \in 1..Len(tasks) :
       /\ tasks[i].isCompleted /\ ~tasks[j].isCompleted
       /\ TitlesOf(SentRequest.tasks) = <<tasks[j].title>>

\* C3: the titles of a schedule request in flight are mutually distinct.
\* The code violates it: handleCreateTask accepts a title already in use.
C3_DistinctTitlesSent ==
  IsSome(inflight) =>
    \A i, j \in 1..Len(SentRequest.tasks) :
      i # j => SentRequest.tasks[i].title # SentRequest.tasks[j].title

\* C4: in every step that sends a schedule request, each estimatedHours is
\* an integer >= 1, and a task whose Estimated Hours field was never edited
\* is sent with 1.  The code violates the second part.
C4_HoursIntegerAndDefaultOne ==
  [][RequestLeaves =>
       LET sent == Get(inflight').request.tasks
       IN  \A i \in 1..Len(sent) :
             /\ IsInteger(sent[i].estimatedHours)
             /\ ~LessThan(sent[i].estimatedHours, 1)
             /\ incompleteTasks[i].id \notin edited => sent[i].estimatedHours = Num(1)]_vars

\* C5: no schedule request with an empty tasks array is in flight, and while
\* the task list has no incomplete task no request is sent and the
\* scheduling dialog is not opened.
C5_NoEmptyRequest ==
  /\ [](IsSome(inflight) => Len(SentRequest.tasks) > 0)
  /\ [][IncompletePositions = {} =>
          /\ ~RequestLeaves
          /\ ~(~isDialogOpen /\ isDialogOpen')]_vars

C5_Witness ==
  /\ Len(tasks) > 0 /\ IncompletePositions = {}
  /\ DOMAIN taskDetails # {} /\ ~isDialogOpen /\ inflight = None

Settled == IsSome(event) /\ IsSome(Get(event).response)

SettledResponse == Get(Get(event).response)

SettledOutcome == Get(event).outcome

\* C7: for a response with a non-2xx status the promise rejects, with the
\* body text as message, or 'HTTP error! status: <status>' when the body is
\* empty; it never resolves.
C7_Non2xxRejects ==
  (Settled /\ (SettledResponse.status < 200 \/ SettledResponse.status > 299)) =>
    /\ SettledOutcome.kind = "rejected"
    /\ IF SettledResponse.body.text # ""
       THEN /\ SettledOutcome.message.kind = "body"
            /\ SettledOutcome.message.text = SettledResponse.body.text
       ELSE /\ SettledOutcome.message.kind = "HTTP error! status:"
            /\ SettledOutcome.message.status = SettledResponse.status

C7_Witness ==
  /\ Settled /\ SettledResponse.status = 401
  /\ SettledResponse.body.text = "Unauthorized"
  /\ SettledOutcome.kind = "rejected"
  /\ SettledOutcome.message.text = "Unauthorized"

\* What the results view of the dialog lists: the warnings and the
\* scheduled tasks, in order; None when it is not on screen.
ResultsView ==
  IF RenderThrows \/ ~DialogVisible \/ ~IsSome(scheduleResponse) THEN None
  ELSE Some([warnings |-> Get(scheduleResponse).warnings,
             tasks    |-> Get(scheduleResponse).scheduledTasks])

FieldOrEmpty(value, field) == IF field \in DOMAIN value THEN value[field] ELSE <<>>

\* C8: when a schedule request settles on a 2xx response, scheduleResponse
\* is that response, the page renders, and the results view (when the dialog
\* is on screen) lists every scheduled task and every warning of it.  The
\* code violates it for the response shape its documentation gives.
C8_SuccessfulResponseShown ==
  (Settled /\ ResponseOk(SettledResponse) /\ IsSome(SettledResponse.body.json)) =>
    LET value == Get(SettledResponse.body.json)
    IN  /\ scheduleResponse = Some(value)
        /\ ~RenderThrows
        /\ DialogVisible =>
             ResultsView = Some([warnings |-> FieldOrEmpty(value, "warnings"),
                                 tasks    |-> FieldOrEmpty(value, "scheduledTasks")])

\* The dependencies of the request reachable from the titles in S.
RECURSIVE ReachableDeps(_, _)
ReachableDeps(req, S) ==
  LET next == S \cup UNION {Range(req.tasks[i].dependencies) :
                              i \in {k \in 1..Len(req.tasks) : req.tasks[k].title \in S}}
  IN  IF next = S THEN S ELSE ReachableDeps(req, next)

Acyclic(req) ==
  \A i \in 1..Len(req.tasks) :
    req.tasks[i].title \notin ReachableDeps(req, Range(req.tasks[i].dependencies))

\* The result the client received for the request in flight.
HasResult == Settled /\ SettledOutcome.kind = "resolved"

Result == SettledOutcome.value

DependenciesOfTitle(req, title) ==
  UNION {Range(req.tasks[i].dependencies) :
           i \in {k \in 1..Len(req.tasks) : req.tasks[k].title = title}}

\* C9: for a request whose dependency graph is acyclic, recommendedOrder
\* lists no task before a task it depends on.
C9_TopologicalOrder ==
  (HasResult /\ Acyclic(SentRequest)) =>
    \A p, q \in 1..Len(Result.recommendedOrder) :
      p < q => Result.recommendedOrder[q]
                 \notin DependenciesOfTitle(SentRequest, Result.recommendedOrder[p])

C9_Witness ==
  /\ HasResult /\ Acyclic(SentRequest) /\ Len(SentRequest.tasks) = 3
  /\ SentRequest.tasks[1].dependencies = <<"C">>
  /\ SentRequest.tasks[3].dependencies = <<"B">>
  /\ Result.recommendedOrder = <<"B", "C", "A">>

\* C10: recommendedOrder and scheduledTasks of a result each contain every
\* title of the request exactly once and nothing else, cyclic or not.
C10_Totality ==
  HasResult =>
    /\ Len(Result.recommendedOrder) = Len(SentRequest.tasks)
    /\ Len(Result.scheduledTasks) = Len(SentRequest.tasks)
    /\ \A t \in ReqTitles(SentRequest) :
         /\ CountIn(Result.recommendedOrder, t) = 1
         /\ CountIn(TitlesOf(Result.scheduledTasks), t) = 1

C10_Witness ==
  /\ HasResult /\ ~Result.isSchedulable /\ Len(SentRequest.tasks) = 3
  /\ SentRequest.tasks[1].dependencies = <<"B">>
  /\ SentRequest.tasks[2].dependencies = <<"A">>
  /\ Result.recommendedOrder = <<"C", "A", "B">>

\* The configuration of the cycle case: the incomplete tasks are A and B,
\* without due dates, A depends on B and B depends on A.
CycleInputAB ==
  /\ TitlesOf(incompleteTasks) = <<"A", "B">>
  /\ \A i \in 1..Len(incompleteTasks) : incompleteTasks[i].dueDate = NoDue
  /\ DepsOrEmpty(taskDetails, "A") = <<"B">>
  /\ DepsOrEmpty(taskDetails, "B") = <<"A">>

HasCycleWarning(result) ==
  \E k \in 1..Len(result.warnings) : result.warnings[k].kind = "cycle"

\* C11: when Generate Schedule is pressed on the cycle case (A depends on B,
\* B depends on A, no due dates), the request is sent and the result the
\* service gives for it has isSchedulable = false, A and B in
\* recommendedOrder and a warning mentioning a cycle.  The code violates it:
\* validateScheduleRequest refuses the input and nothing is sent.
C11_CycleCaseGetsResult ==
  [][(handleScheduleTasks /\ CycleInputAB) =>
       /\ RequestLeaves
       /\ LET resp == ScheduleEndpoint(Get(inflight').request, runStart, danglingPolicy)
          IN  /\ resp.status = 200
              /\ LET result == Get(resp.body.json)
                 IN  /\ ~result.isSchedulable
                     /\ {"A", "B"} \subseteq Range(result.recommendedOrder)
                     /\ HasCycleWarning(result)]_vars

\* The titles of the request whose dependencies (those that are tasks of the
\* request) can all be ordered within k extraction steps.
RECURSIVE OrderedWithin(_, _)
OrderedWithin(req, k) ==
  IF k = 0 THEN {}
  ELSE LET prev == OrderedWithin(req, k - 1)
       IN  {req.tasks[i].title : i \in {j \in 1..Len(req.tasks) :
              (Range(req.tasks[j].dependencies) \cap ReqTitles(req)) \subseteq prev}}

\* The step at which a title becomes eligible; 0 when it never does.
StepOf(req, title) ==
  LET steps == {k \in 1..Len(req.tasks) : title \in OrderedWithin(req, k)}
  IN  IF steps = {} THEN 0 ELSE CHOOSE k \in steps : \A m \in steps : k <= m

PositionOf(req, title) == CHOOSE i \in 1..Len(req.tasks) : req.tasks[i].title = title

\* C12: two tasks of a result that became eligible at the same step are in
\* ascending order of due date, a task without due date after every dated
\* one, and tasks of equal due date in the order of the request.
C12_TieBreak ==
  HasResult =>
    \A p, q \in 1..Len(Result.recommendedOrder) :
      LET ip == PositionOf(SentRequest, Result.recommendedOrder[p])
          iq == PositionOf(SentRequest, Result.recommendedOrder[q])
          dp == SentRequest.tasks[ip].dueDate
          dq == SentRequest.tasks[iq].dueDate
      IN  (/\ p < q
           /\ StepOf(SentRequest, Result.recommendedOrder[p]) > 0
           /\ StepOf(SentRequest, Result.recommendedOrder[p])
                = StepOf(SentRequest, Result.recommendedOrder[q]))
          => /\ dq # NoDue => (dp # NoDue /\ dp <= dq)
             /\ dp = dq => ip < iq

\* X without due date, Y due, submitted as [X, Y]: Y comes before X.
C12_Witness ==
  /\ HasResult /\ Len(SentRequest.tasks) = 2
  /\ SentRequest.tasks[1].dueDate = NoDue /\ SentRequest.tasks[2].dueDate # NoDue
  /\ SentRequest.tasks[1].dependencies = <<>> /\ SentRequest.tasks[2].dependencies = <<>>
  /\ Result.recommendedOrder = <<SentRequest.tasks[2].title, SentRequest.tasks[1].title>>

\* C13: in every result each scheduled task ends after it starts, and the
\* next scheduled task does not start before it ends.
C13_NoOverlap ==
  HasResult =>
    /\ \A k \in 1..Len(Result.scheduledTasks) :
         Result.scheduledTasks[k].endDate > Result.scheduledTasks[k].startDate
    /\ \A k \in 1..(Len(Result.scheduledTasks) - 1) :
         Result.scheduledTasks[k + 1].startDate >= Result.scheduledTasks[k].endDate

\* Three tasks, the first rolling over to the next working day, one
\* starting at the instant its predecessor ends.
C13_Witness ==
  /\ HasResult /\ Len(Result.scheduledTasks) = 3
  /\ Result.scheduledTasks[1].endDate \div HoursPerDay
       > Result.scheduledTasks[1].startDate \div HoursPerDay
  /\ \E k \in 1..2 :
       Result.scheduledTasks[k + 1].startDate = Result.scheduledTasks[k].endDate

\* The number of overdue warnings of a result that name a title.
OverdueCount(result, title) ==
  Cardinality({k \in 1..Len(result.warnings) :
                 /\ result.warnings[k].kind = "overdue"
                 /\ result.warnings[k].title = title})

\* The scheduled task ends after the due date of its task.
Overruns(req, scheduled) ==
  LET due == req.tasks[PositionOf(req, scheduled.title)].dueDate
  IN  due # NoDue /\ scheduled.endDate > DueTime(due)

\* C14: a result holds exactly one overdue warning for each task that ends
\* after its due date and none for any other task; a request without cycle
\* (and without dangling dependency) is schedulable whatever its overruns.
C14_OverdueWarnings ==
  HasResult =>
    /\ \A k \in 1..Len(Result.scheduledTasks) :
         OverdueCount(Result, Result.scheduledTasks[k].title)
           = IF Overruns(SentRequest, Result.scheduledTasks[k]) THEN 1 ELSE 0
    /\ (Acyclic(SentRequest) /\ ~HasDangling(SentRequest)) => Result.isSchedulable

\* A schedulable result with a task that overruns its due date and a dated
\* task that does not.
C14_Witness ==
  /\ HasResult /\ Result.isSchedulable
  /\ \E k, m \in 1..Len(Result.scheduledTasks) :
       /\ Overruns(SentRequest, Result.scheduledTasks[k])
       /\ OverdueCount(Result, Result.scheduledTasks[k].title) = 1
       /\ ~Overruns(SentRequest, Result.scheduledTasks[m])
       /\ SentRequest.tasks[PositionOf(SentRequest, Result.scheduledTasks[m].title)].dueDate # NoDue
       /\ OverdueCount(Result, Result.scheduledTasks[m].title) = 0

\* C15: no schedule request in flight has a cycle among the dependencies of
\* its tasks, whatever the length of the cycle.  The code violates it:
\* validateScheduleRequest only finds two tasks that list each other.
C15_NoCyclicRequestSent ==
  IsSome(inflight) => Acyclic(SentRequest)

\* Two incomplete tasks each list the other as a dependency.
MutualPairs ==
  {pair \in (1..Len(incompleteTasks)) \X (1..Len(incompleteTasks)) :
     /\ pair[1] # pair[2]
     /\ incompleteTasks[pair[2]].title
          \in Range(DepsOrEmpty(taskDetails, incompleteTasks[pair[1]].title))
     /\ incompleteTasks[pair[1]].title
          \in Range(DepsOrEmpty(taskDetails, incompleteTasks[pair[2]].title))}

IsCircularError(errs, title) ==
  title \in DOMAIN errs /\ errs[title].kind = "Circular dependency detected with"

\* C16: when Generate Schedule is pressed while two incomplete tasks list
\* each other as a dependency, validation fails, a 'Circular dependency
\* detected' error is recorded under the titles of both, no request is sent
\* and isScheduling and scheduleResponse stay as they were.
C16_MutualDependencyRefused ==
  [][(handleScheduleTasks /\ MutualPairs # {}) =>
       /\ ~validateScheduleRequest
       /\ \A pair \in MutualPairs :
            /\ IsCircularError(errors', incompleteTasks[pair[1]].title)
            /\ IsCircularError(errors', incompleteTasks[pair[2]].title)
       /\ inflight' = None
       /\ isScheduling' = isScheduling
       /\ scheduleResponse' = scheduleResponse]_vars

C16_Witness ==
  /\ DialogVisible /\ MutualPairs # {} /\ inflight = None /\ ~isScheduling
  /\ TitlesOf(incompleteTasks) = <<"A", "B">>
  /\ IsCircularError(errors, "A") /\ errors["A"].with = "B"
  /\ IsCircularError(errors, "B") /\ errors["B"].with = "A"

\* C17: whenever no create, toggle or delete request is in flight and none
\* has failed, the local task list holds exactly the tasks the server holds,
\* each as the server returned it.  The code violates it: every handler sets
\* the list from the list its closure captured when it was called.
C17_LocalListIsServerList ==
  (pending = {} /\ ~failed) =>
    /\ Len(tasks) = Len(server)
    /\ Range(tasks) = Range(server)

\* A schedule is on screen: in the results view of the dialog or in the
\* Current Schedule card.
ScheduleDisplayed ==
  SchedulerRendered /\ IsSome(scheduleResponse) /\ ~RenderThrows

\* C18: whenever a schedule is displayed, every title of its scheduledTasks
\* is the title of a task that is incomplete in the current task list.  The
\* code violates it: scheduleResponse outlives changes of the task list.
C18_ScheduleOfIncompleteTasks ==
  ScheduleDisplayed =>
    \A k \in 1..Len(Get(scheduleResponse).scheduledTasks) :
      Get(scheduleResponse).scheduledTasks[k].title \in IncompleteTitles

\* A step that ends a run of handleScheduleTasks; its toast.
RunEnds == IsSome(inflight) /\ IsSome(event')

ToastShown == Get(event').toast

\* C19: a run of handleScheduleTasks that ends with the 'Failed to schedule
\* tasks' toast leaves scheduleResponse as it was, and a run that changes
\* scheduleResponse ends with the success or the warnings toast.  The code
\* violates it for a 2xx response of the documented shape.
C19_FailedRunKeepsResponse ==
  [][RunEnds =>
       /\ ToastShown = "Failed to schedule tasks" => scheduleResponse' = scheduleResponse
       /\ scheduleResponse' # scheduleResponse =>
            ToastShown \in {"Tasks scheduled successfully",
                            "Schedule generated with warnings"}]_vars

\* C20: isScheduling, once true, becomes false again (the HTTP call
\* completing), and it is never true while no request is in flight.
C20_IsSchedulingEnds ==
  /\ isScheduling ~> ~isScheduling
  /\ [](isScheduling => IsSome(inflight))

\* A run that ended on a rejection, isScheduling back to false.
C20_Witness ==
  /\ IsSome(event) /\ Get(event).outcome.kind = "rejected"
  /\ inflight = None /\ ~isScheduling

\* C21: a run of handleScheduleTasks starts a request only while none is in
\* flight, and isScheduling is true for as long as a request is in flight
\* (also across Cancel and a reopening of the dialog).
C21_OneRequestInFlight ==
  /\ [](IsSome(inflight) => isScheduling)
  /\ [][(handleScheduleTasks /\ validateScheduleRequest) =>
          (inflight = None /\ ~isScheduling)]_vars

\* The dialog was cancelled while the request was in flight.
C21_Witness ==
  /\ IsSome(inflight) /\ isScheduling /\ ~isDialogOpen

\* The position in the task list of the k-th task that is not completed.
KthIncomplete(k) ==
  CHOOSE i \in IncompletePositions :
    Cardinality({j \in IncompletePositions : j <= i}) = k

\* C22: in every step that sends a schedule request, the k-th task of the
\* request is the k-th incomplete task of the task list (same title and due
\* date): the request keeps the relative order of the list.
C22_RequestKeepsListOrder ==
  [][RequestLeaves =>
       LET sent == Get(inflight').request.tasks
       IN  /\ Len(sent) = Cardinality(IncompletePositions)
           /\ \A k \in 1..Len(sent) :
                /\ sent[k].title = tasks[KthIncomplete(k)].title
                /\ sent[k].dueDate = tasks[KthIncomplete(k)].dueDate]_vars

\* Two tasks of different titles sent in the order of the list, B first.
C22_Witness ==
  /\ IsSome(inflight) /\ pending = {}
  /\ TitlesOf(tasks) = <<"B", "A">>
  /\ TitlesOf(SentRequest.tasks) = <<"B", "A">>

\* C23: a token in localStorage implies that user is the non-empty username
\* of the session that stored the token (every state of the client follows a
\* run of the mount effect).  The code violates it when the page is loaded
\* again in a session started by login.
C23_TokenImpliesSessionUser ==
  "token" \in DOMAIN localStorage => (user # "" /\ user = session)

\* The keys of localStorage that login and register write.
SessionKeys == {"token", "user", "username"}

\* C24: while no session is open (after logout, before a new login or
\* register) localStorage holds none of the session data and user is empty,
\* and a schedule request sent then carries no Authorization header.  The
\* code violates it after the logout of a session started by login.
C24_LogoutClearsSession ==
  /\ [](session = "" => (DOMAIN localStorage \cap SessionKeys = {} /\ user = ""))
  /\ [][(session = "" /\ RequestLeaves) =>
          "Authorization" \notin DOMAIN Get(inflight').headers]_vars

\* C25 as claimed: when a create, toggle or delete request fails, the task
\* list is the list the handler saw when it was called; a declined delete
\* confirmation sends nothing and changes nothing.  The code violates the
\* first part when another request succeeded between the attempt and the
\* failure.
C25_FailureRestoresListBeforeAttempt ==
  /\ [][\A p \in pending :
          (requestFails /\ pending' = pending \ {p}) => tasks' = p.snap]_vars
  /\ [][handleDeleteTaskDeclined => (pending' = pending /\ tasks' = tasks)]_vars

\* C25 amended: the failure of a create, toggle or delete request leaves the
\* task list as it was when the failure arrived, with whatever other requests
\* did to it since the attempt; a declined delete confirmation sends no
\* request and leaves the list and the server's list unchanged.
C25_FailureLeavesListUnchanged ==
  /\ [][requestFails => (tasks' = tasks /\ server' = server)]_vars
  /\ [][handleDeleteTaskDeclined =>
          (pending' = pending /\ tasks' = tasks /\ server' = server)]_vars

\* A request has failed and the list still holds a task.
C25_Witness ==
  /\ failed /\ pending = {} /\ tasks # <<>>

\* The estimated hours and the dependencies a request built from the
\* configuration td would carry for the k-th incomplete task.
SentHours(td, k) == parseEstimatedHours(HoursOrDefault(td, incompleteTasks[k].title))

SentDeps(td, k) == DepsOrEmpty(td, incompleteTasks[k].title)

OthersUnchanged(i) ==
  \A k \in 1..Len(incompleteTasks) :
    k # i => /\ SentHours(taskDetails', k) = SentHours(taskDetails, k)
             /\ SentDeps(taskDetails', k) = SentDeps(taskDetails, k)

\* C26: a change of the hours or of a dependency of one task leaves the hours
\* and dependencies that would be sent for every other task unchanged; a
\* dependency change leaves the task's own hours unchanged; and unchecking a
\* dependency that was just checked gives back the previous dependency list.
\* The code violates the first part when two incomplete tasks share a title.
C26_ChangeTouchesOneTask ==
  [][/\ ConfigVisible
     /\ UNCHANGED <<tasks, isDialogOpen, scheduleResponse>>
     => /\ \A i \in 1..Len(incompleteTasks), value \in HoursTexts :
             handleEstimatedHoursChangeOf(i, value) => OthersUnchanged(i)
        /\ \A i, j \in 1..Len(incompleteTasks) :
             handleDependencyChangeOf(i, j) =>
               LET title == incompleteTasks[i].title
                   dependency == incompleteTasks[j].title
               IN  /\ OthersUnchanged(i)
                   /\ SentHours(taskDetails', i) = SentHours(taskDetails, i)
                   /\ ~BoxChecked(taskDetails, title, dependency) =>
                        newDeps(taskDetails', title, dependency, FALSE)
                          = DepsOrEmpty(taskDetails, title)]_vars

\* C27: no task of a schedule request in flight lists its own title among
\* its dependencies, also when tasks of the project share a title.
C27_NoSelfDependencySent ==
  IsSome(inflight) =>
    \A k \in 1..Len(SentRequest.tasks) :
      SentRequest.tasks[k].title \notin Range(SentRequest.tasks[k].dependencies)

\* A request with two tasks of one title is in flight.
C27_Witness ==
  /\ IsSome(inflight)
  /\ Len(SentRequest.tasks) = 2
  /\ SentRequest.tasks[1].title = SentRequest.tasks[2].title

\* The title has at least 1 and fewer than 200 characters.
TitleAsMessagesState(title) == Len(title) >= 1 /\ Len(title) < 200

\* C28: every create request handleCreateTask sends has a title of at least
\* 1 and fewer than 200 characters; a submit with any other title sets
\* errors.title, sends nothing and leaves the task list and isCreating
\* unchanged.  The code violates it for a title of exactly 200 characters.
C28_CreateOnlyBelow200 ==
  [][/\ \A p \in pending' \ pending :
          p.op = "create" => TitleAsMessagesState(p.task.title)
     /\ \A newTask \in NewTaskForms \cup BoundaryForms :
          (handleCreateTaskOn(newTask) /\ ~TitleAsMessagesState(newTask[1])) =>
            /\ "title" \in DOMAIN formErrors'
            /\ pending' = pending
            /\ tasks' = tasks
            /\ isCreating' = isCreating]_vars

====
